---- MODULE Spec2Model ----
(***************************************************************************)
(* Model of altria's web::session module (crates/altria/src/web/session.rs) *)
(* Session<T> = immutable id and created_at plus Arc<RwLock<SessionState>>. *)
(***************************************************************************)
EXTENDS Integers, Sequences, FiniteSets, TLC

\* ------------------------------------------------------------------ bounds
\* Greatest representable SystemTime; `t + d` beyond it panics.
MaxTime == 3
\* Greatest Duration handed to expires_in / extend_expiration.
MaxDur == 2
\* Greatest number of Session handles (the built one and its clones).
MaxHandles == 2
\* Number of threads that share the session, and calls each of them makes.
NThreads == 2
PerThread == 2

\* ------------------------------------------------------------------ values
\* Option::None of a payload or of a context lookup, and of a SystemTime.
None == "None"
NoValue == <<"None", 0>>
NoTime == 0 - 1
Payloads == {"p1", "p2"}
\* format!("key{i}") and format!("value{i}")
K(i) == <<"key", i>>
V(i) == <<"value", i>>
Keys == {K(1), K(2)}
Vals == {V(1), V(2)}
Times == 0..MaxTime
Durations == 0..MaxDur
OptPayloads == Payloads \cup {None}
OptTimes == Times \cup {NoTime}
EmptyMap == [k \in {} |-> V(1)]
Contexts == UNION {[D -> Vals] : D \in SUBSET Keys}
Generators == {"uuid", "custom"}

VARIABLES
    phase,      \* "builder" | "built" | "panicked": position of the constructing caller
    builder,    \* the SessionBuilder being assembled
    handles,    \* sequence of Session handles: [id, created_at, state]
    heap,       \* sequence of Arc<RwLock<SessionState>> cells: [poisoned, st]
    now,        \* the reading SystemTime::now() yields
    ret,        \* how the last call returned: "unit" | "panic" | "read" | an error
    genCalls,   \* number of id_generator.generate() invocations
    born,       \* history: [id, created_at] sampled by build()
    lock,       \* the RwLock's holders: [writer, readers]
    pc,         \* per thread: "idle" | "wait" | "held" | "loaded" | "fielded" | "stored", and
                \* "external" | "returned" | "blocked" around caller-supplied code
    call,       \* per thread: the Session call it is in
    local,      \* per thread: what it read through its guard
    todo,       \* per thread: the calls it still has to make
    applied,    \* history: the context entries set_context calls have stored, or
                \* the calls that returned, first to last, with their values
    wire,       \* the serialized record last produced
    asked,      \* history: the expires_at the threads started from plus every
                \* duration their extend_expiration calls were given
    store,      \* MemoryStore::sessions: the stored handle under each id
    out,        \* what the last SessionStore call returned
    auth,       \* the last Auth extraction: authenticator, extracted id, calls, result
    dirty       \* history: the handle whose mutator returned last since construction or
                \* the last clear_modified; 0 when none did

svars == <<store, out, auth>>

tvars == <<lock, pc, call, local, todo, applied, wire, asked, svars>>

vars == <<phase, builder, handles, heap, now, ret, genCalls, born, dirty, tvars>>

\* ------------------------------------------------------- id generation
Generate_constant(g, n) == <<g, 0>>

\* SessionIdGenerator::generate: UuidV4Generator draws a fresh UUID per call,
\* a custom generator returns what its implementation says (the tests' one
\* returns a constant string; the trait admits any String, "" included).
Generate(g, n) ==
    IF g = "uuid" THEN <<"uuid", n + 1>>
    ELSE IF g = "empty" THEN <<"", 0>>
    ELSE <<"custom-id-123", 0>>

\* ------------------------------------------------------- SessionBuilder
\* SessionBuilder::new / with_id_generator
NewBuilder(g) ==
    [id_generator |-> g, data |-> None, expires_in |-> NoTime, context |-> EmptyMap]

\* build(self) takes the builder by value: nothing of it is left to the caller.
Consumed == NewBuilder("consumed")

BuilderData(b, d) == [b EXCEPT !.data = d]

BuilderExpiresIn(b, d) == [b EXCEPT !.expires_in = d]

\* HashMap::insert
MapInsert(m, k, v) ==
    [x \in (DOMAIN m) \cup {k} |-> IF x = k THEN v ELSE m[x]]

BuilderContext(b, k, v) == [b EXCEPT !.context = MapInsert(@, k, v)]

\* The builder after a context(k, v) call for every entry of c.
BuilderContextAll(b, c) == [b EXCEPT !.context = c]

\* SystemTime + Duration panics when the sum is not representable.
AddOverflows(t, d) == t + d > MaxTime

\* build() panics at `now + duration` when that overflows.
BuildPanics(b, t) == b.expires_in # NoTime /\ AddOverflows(t, b.expires_in)

BuildState_dirty(b, t) ==
    [data |-> b.data, context |-> b.context,
     expires_at |-> IF b.expires_in = NoTime THEN NoTime ELSE t + b.expires_in,
     modified |-> (b.data # None \/ b.context # EmptyMap), discarded |-> FALSE]

BuildState_forever(b, t) ==
    [data |-> b.data, context |-> b.context, expires_at |-> NoTime,
     modified |-> FALSE, discarded |-> FALSE]

BuildState_early(b, t) ==
    [data |-> b.data, context |-> b.context,
     expires_at |-> IF b.expires_in = NoTime THEN NoTime ELSE b.expires_in,
     modified |-> FALSE, discarded |-> FALSE]

\* The SessionState that build() puts behind the new lock.
BuildState(b, t) ==
    [data |-> b.data, context |-> b.context,
     expires_at |-> IF b.expires_in = NoTime THEN NoTime ELSE t + b.expires_in,
     modified |-> FALSE, discarded |-> FALSE]

BuildHandle_again(b, t, n, c) ==
    [id |-> Generate(b.id_generator, n + 1), created_at |-> t, state |-> c]

BuildHandle_shared(b, t, n, c) ==
    [id |-> Generate(b.id_generator, n), created_at |-> t, state |-> 1]

\* The handle that build() returns; its state is cell number c.
BuildHandle(b, t, n, c) ==
    [id |-> Generate(b.id_generator, n), created_at |-> t, state |-> c]

\* ------------------------------------------------------- Session reads
\* self.state.read().ok(): None when the lock is poisoned.
ReadOk(h) == ~heap[handles[h].state].poisoned

St(h) == heap[handles[h].state].st

id(h) == handles[h].id

created_at(h) == handles[h].created_at

expires_at(h) == IF ReadOk(h) THEN St(h).expires_at ELSE NoTime

is_expired_unchecked(h) == now >= expires_at(h)

is_expired_strict(h) ==
    LET e == expires_at(h) IN e # NoTime /\ now > e

is_expired(h) ==
    LET e == expires_at(h) IN e # NoTime /\ now >= e

is_modified(h) == ReadOk(h) /\ St(h).modified

is_discarded_unguarded(h) == St(h).discarded

is_discarded(h) == ReadOk(h) /\ St(h).discarded

has_data(h) == ReadOk(h) /\ St(h).data # None

data(h) == IF ReadOk(h) THEN St(h).data ELSE None

get_context(h, k) ==
    IF ReadOk(h) /\ k \in DOMAIN St(h).context THEN St(h).context[k] ELSE NoValue

context(h) == IF ReadOk(h) THEN St(h).context ELSE EmptyMap

\* ------------------------------------------------------- Session mutators
\* Each takes the cell (lock and guarded state) and yields the cell after the
\* call; `if let Ok(mut state) = self.state.write()` skips a poisoned lock.
update_data_nomark(c, d) ==
    IF c.poisoned THEN c ELSE [c EXCEPT !.st.data = d]

update_data(c, d) ==
    IF c.poisoned THEN c ELSE [c EXCEPT !.st.data = d, !.st.modified = TRUE]

set_context_replace(c, k, v) ==
    IF c.poisoned THEN c
    ELSE [c EXCEPT !.st.context = MapInsert(EmptyMap, k, v), !.st.modified = TRUE]

set_context(c, k, v) ==
    IF c.poisoned THEN c
    ELSE [c EXCEPT !.st.context = MapInsert(@, k, v), !.st.modified = TRUE]

\* The base that extend_expiration adds to: expires_at, or now when absent.
ExtendBase(c, t) == IF c.st.expires_at = NoTime THEN t ELSE c.st.expires_at

\* `+` panics inside the critical section: the guard is dropped while
\* unwinding, which poisons the lock and leaves the state as it was.
ExtendPanics(c, d, t) == ~c.poisoned /\ AddOverflows(ExtendBase(c, t), d)

extend_expiration(c, d, t) ==
    IF c.poisoned THEN c
    ELSE IF ExtendPanics(c, d, t) THEN [c EXCEPT !.poisoned = TRUE]
    ELSE [c EXCEPT !.st.expires_at = ExtendBase(c, t) + d, !.st.modified = TRUE]

set_expiration(c, e) ==
    IF c.poisoned THEN c ELSE [c EXCEPT !.st.expires_at = e, !.st.modified = TRUE]

discard_always(c) == [c EXCEPT !.st.discarded = TRUE, !.st.modified = TRUE]

discard(c) ==
    IF c.poisoned THEN c ELSE [c EXCEPT !.st.discarded = TRUE, !.st.modified = TRUE]

clear_modified_all(c) ==
    IF c.poisoned THEN c
    ELSE [c EXCEPT !.st.modified = FALSE, !.st.discarded = FALSE]

clear_modified(c) ==
    IF c.poisoned THEN c ELSE [c EXCEPT !.st.modified = FALSE]

\* #[derive(Clone)]: the id and created_at are copied, the Arc is shared.
SessionClone_deep(h) ==
    [handles |-> Append(handles, [handles[h] EXCEPT !.state = Len(heap) + 1]),
     heap |-> Append(heap, heap[handles[h].state])]

SessionClone_restamp(h) ==
    [handles |-> Append(handles, [handles[h] EXCEPT !.created_at = now]),
     heap |-> heap]

SessionClone(h) ==
    [handles |-> Append(handles, handles[h]), heap |-> heap]

SessionEq_content(h1, h2) ==
    /\ handles[h1].id = handles[h2].id
    /\ handles[h1].created_at = handles[h2].created_at
    /\ heap[handles[h1].state] = heap[handles[h2].state]

\* impl PartialEq for Session: `self.id == other.id`.
SessionEq(h1, h2) == handles[h1].id = handles[h2].id

\* ------------------------------------------------------- serialization
FieldNames == {"id", "created_at", "data", "context", "expires_at"}

SerializeFields_derived(hd, st) ==
    << <<"id", hd.id>>, <<"created_at", hd.created_at>>, <<"data", st.data>>,
       <<"context", st.context>>, <<"expires_at", st.expires_at>>,
       <<"modified", st.modified>>, <<"discarded", st.discarded>> >>

\* serialize_struct("Session", 5) and its five serialize_field calls, in order.
SerializeFields(hd, st) ==
    << <<"id", hd.id>>, <<"created_at", hd.created_at>>, <<"data", st.data>>,
       <<"context", st.context>>, <<"expires_at", st.expires_at>> >>

SerializeSession_defaults(hd, c) ==
    [ok |-> TRUE, err |-> "",
     fields |-> SerializeFields(hd, IF c.poisoned
                                    THEN [data |-> None, context |-> EmptyMap,
                                          expires_at |-> NoTime]
                                    ELSE c.st)]

\* Session::serialize: the custom error when the read lock is poisoned.
SerializeSession(hd, c) ==
    IF c.poisoned
    THEN [ok |-> FALSE, err |-> "failed to acquire read lock", fields |-> <<>>]
    ELSE [ok |-> TRUE, err |-> "", fields |-> SerializeFields(hd, c.st)]

\* visit_map's five `let mut x = None` slots: <<>> is None, <<v>> is Some(v).
EmptySlots == [f \in FieldNames |-> <<>>]

DeError(e) ==
    [ok |-> FALSE, err |-> e, handle |-> [id |-> <<"", 0>>, created_at |-> NoTime],
     st |-> <<>>]

SessionFromSlots_noexpiry(sl) ==
    [ok |-> TRUE, err |-> "",
     handle |-> [id |-> sl["id"][1], created_at |-> sl["created_at"][1]],
     st |-> <<[data |-> sl["data"][1], context |-> sl["context"][1],
               expires_at |-> NoTime,
               modified |-> FALSE, discarded |-> FALSE]>>]

\* The tail of visit_map: every slot must be filled, then Ok(Session { .. })
\* with a new lock around a state whose flags are false.
SessionFromSlots(sl) ==
    [ok |-> TRUE, err |-> "",
     handle |-> [id |-> sl["id"][1], created_at |-> sl["created_at"][1]],
     st |-> <<[data |-> sl["data"][1], context |-> sl["context"][1],
               expires_at |-> sl["expires_at"][1],
               modified |-> FALSE, discarded |-> FALSE]>>]

RECURSIVE VisitMap(_, _)
\* SessionVisitor::visit_map over the record's entries, first to last.
VisitMap(entries, sl) ==
    IF entries = <<>>
    THEN IF \E f \in FieldNames : Len(sl[f]) = 0
         THEN DeError("missing_field")
         ELSE SessionFromSlots(sl)
    ELSE LET key == Head(entries)[1]
             val == Head(entries)[2]
         IN  IF key \notin FieldNames THEN DeError("unknown_field")
             ELSE IF Len(sl[key]) > 0 THEN DeError("duplicate_field")
             ELSE VisitMap(Tail(entries), [sl EXCEPT ![key] = <<val>>])

DeserializeSession_lenient(fields) ==
    VisitMap(SelectSeq(fields, LAMBDA e : e[1] \in FieldNames), EmptySlots)

\* Session::deserialize
DeserializeSession(fields) == VisitMap(fields, EmptySlots)

\* ------------------------------------------------------- SessionStore
\* The SessionStore of the trait's documentation, MemoryStore: a HashMap from
\* id to Session handle. HashMap::new().
NoSessions == [i \in {} |-> 0]

\* What a store call returns: Ok(()), Ok(Some(session)) / Ok(None) in found,
\* Ok(count). Every MemoryStore call returns Ok: its own lock is never poisoned.
StoreRet(op, found, count) == [op |-> op, ok |-> TRUE, found |-> found, count |-> count]

NoCall == StoreRet("none", <<>>, 0)

\* save: store.insert(session.id().to_string(), session.clone()).
MemSave_first(s, hd) == IF hd.id \in DOMAIN s THEN s ELSE MapInsert(s, hd.id, hd)

MemSave(s, hd) == MapInsert(s, hd.id, hd)

\* load: store.get(session_id).cloned().
MemLoad(s, i) == IF i \in DOMAIN s THEN <<s[i]>> ELSE <<>>

MemDelete_all(s, i) == NoSessions

\* delete: store.remove(session_id).
MemDelete(s, i) == [x \in (DOMAIN s) \ {i} |-> s[x]]

\* session.is_expired() of a stored handle, on cells hp at time t.
StoredExpired(hd, hp, t) ==
    LET c == hp[hd.state]
    IN  ~c.poisoned /\ c.st.expires_at # NoTime /\ t >= c.st.expires_at

MemCleanup_strict(s, hp, t) ==
    [x \in {y \in DOMAIN s : ~(StoredExpired(s[y], hp, t) /\ t > hp[s[y].state].st.expires_at)}
        |-> s[x]]

\* cleanup_expired: store.retain(|_, session| !session.is_expired()).
MemCleanup(s, hp, t) ==
    [x \in {y \in DOMAIN s : ~StoredExpired(s[y], hp, t)} |-> s[x]]

\* ------------------------------------------------------- Auth extractor
\* The session ids a request can carry, and what SessionIdExtractor::extract
\* yields: <<>> is None, <<i>> is Some(i).
SessionIds == {"sid1", "sid2", "sid3"}

Extracted == {<<>>} \cup {<<i>> : i \in SessionIds}

\* What Authenticator::authenticate returns: Ok(user) or Err(error).
Outcomes ==
    [ok : {TRUE}, val : {"alice", "bob"}] \cup [ok : {FALSE}, val : {"denied", "expired"}]

\* An authenticator: the outcome of authenticate for every session id.
Authenticators == [SessionIds -> Outcomes]

\* A::missing_session_id()
MissingSessionId == [ok |-> FALSE, val |-> "missing_session_id"]

FromRequestParts_always(a, e) ==
    [result |-> a[IF e = <<>> THEN "sid1" ELSE e[1]], calls |-> <<"sid1">>]

\* <Auth as FromRequestParts>::from_request_parts: the result, and the ids
\* authenticate was called with.
FromRequestParts(a, e) ==
    IF e = <<>> THEN [result |-> MissingSessionId, calls |-> <<>>]
    ELSE [result |-> a[e[1]], calls |-> <<e[1]>>]

\* <Auth as OptionalFromRequestParts>::from_request_parts: always Ok, of
\* Some(user) in <<user>> or of None in <<>>.
OptionalFromRequestParts(a, e) ==
    LET r == FromRequestParts(a, e)
    IN  [result |-> [ok |-> TRUE, val |-> IF r.result.ok THEN <<r.result.val>> ELSE <<>>],
         calls |-> r.calls]

\* No request has been handled.
NoAuth == [form |-> "none", a |-> <<>>, e |-> <<>>, result |-> <<>>, calls |-> <<>>]

\* ------------------------------------------------------- the lock
CanWrite_always(l) == TRUE

\* RwLock::write is granted when nobody holds the lock.
CanWrite(l) == l.writer = 0 /\ l.readers = {}

\* RwLock::read is granted when no writer holds the lock.
CanRead(l) == l.writer = 0

\* RwLock::new: no writer (0), no readers.
Unlocked == [writer |-> 0, readers |-> {}]

\* ------------------------------------------------------- actions
\* A caller about to configure a builder with one of the generators gs.
InitWith(gs) ==
    /\ phase = "builder"
    /\ builder \in {NewBuilder(g) : g \in gs}
    /\ handles = <<>>
    /\ heap = <<>>
    /\ now = 0
    /\ ret = "unit"
    /\ genCalls = 0
    /\ born = [id |-> <<"", 0>>, created_at |-> NoTime]
    /\ dirty = 0
    /\ lock = Unlocked
    /\ pc = <<>>
    /\ call = <<>>
    /\ local = <<>>
    /\ todo = <<>>
    /\ applied = EmptyMap
    /\ wire = <<>>
    /\ asked = NoTime
    /\ store = NoSessions
    /\ out = NoCall
    /\ auth = NoAuth

Init == InitWith(Generators)

frame == <<handles, heap, now, ret, genCalls, born, dirty, tvars>>

SetBuilderData ==
    /\ phase = "builder"
    /\ \E d \in Payloads : builder' = BuilderData(builder, d)
    /\ UNCHANGED <<phase, frame>>

SetBuilderExpiresIn ==
    /\ phase = "builder"
    /\ \E d \in Durations : builder' = BuilderExpiresIn(builder, d)
    /\ UNCHANGED <<phase, frame>>

SetBuilderContext ==
    /\ phase = "builder"
    /\ \E k \in Keys, v \in Vals : builder' = BuilderContext(builder, k, v)
    /\ UNCHANGED <<phase, frame>>

Build ==
    /\ phase = "builder"
    /\ ~BuildPanics(builder, now)
    /\ phase' = "built"
    /\ heap' = <<[poisoned |-> FALSE, st |-> BuildState(builder, now)]>>
    /\ handles' = <<BuildHandle(builder, now, genCalls, 1)>>
    /\ genCalls' = genCalls + 1
    /\ born' = [id |-> handles'[1].id, created_at |-> now]
    /\ ret' = "unit"
    /\ builder' = Consumed
    /\ UNCHANGED <<now, dirty, tvars>>

BuildPanic ==
    /\ phase = "builder"
    /\ BuildPanics(builder, now)
    /\ phase' = "panicked"
    /\ ret' = "panic"
    /\ builder' = Consumed
    /\ UNCHANGED <<handles, heap, now, genCalls, born, dirty, tvars>>

Tick ==
    /\ now < MaxTime
    /\ now' = now + 1
    /\ UNCHANGED <<phase, builder, handles, heap, ret, genCalls, born, dirty, tvars>>

\* A mutator called through handle h takes cell c to cell c2.
Mutate(h, c2) ==
    /\ heap' = [heap EXCEPT ![handles[h].state] = c2]
    /\ ret' = "unit"
    /\ dirty' = h
    /\ UNCHANGED <<phase, builder, handles, now, genCalls, born, tvars>>

Cell(h) == heap[handles[h].state]

UpdateData ==
    \E h \in DOMAIN handles, d \in OptPayloads : Mutate(h, update_data(Cell(h), d))

SetContext ==
    \E h \in DOMAIN handles, k \in Keys, v \in Vals :
        Mutate(h, set_context(Cell(h), k, v))

ExtendExpiration ==
    \E h \in DOMAIN handles, d \in Durations :
        /\ ~ExtendPanics(Cell(h), d, now)
        /\ Mutate(h, extend_expiration(Cell(h), d, now))

ExtendExpirationPanic ==
    \E h \in DOMAIN handles, d \in Durations :
        /\ ExtendPanics(Cell(h), d, now)
        /\ heap' = [heap EXCEPT ![handles[h].state] = extend_expiration(Cell(h), d, now)]
        /\ ret' = "panic"
        /\ UNCHANGED <<phase, builder, handles, now, genCalls, born, dirty, tvars>>

SetExpiration ==
    \E h \in DOMAIN handles, e \in OptTimes : Mutate(h, set_expiration(Cell(h), e))

Discard ==
    \E h \in DOMAIN handles : Mutate(h, discard(Cell(h)))

ClearModified ==
    \E h \in DOMAIN handles :
        /\ heap' = [heap EXCEPT ![handles[h].state] = clear_modified(Cell(h))]
        /\ ret' = "unit"
        /\ dirty' = 0
        /\ UNCHANGED <<phase, builder, handles, now, genCalls, born, tvars>>

Clone ==
    \E h \in DOMAIN handles :
        /\ Len(handles) < MaxHandles
        /\ handles' = SessionClone(h).handles
        /\ heap' = SessionClone(h).heap
        /\ ret' = "unit"
        /\ UNCHANGED <<phase, builder, now, genCalls, born, dirty, tvars>>

Next ==
    \/ SetBuilderData
    \/ SetBuilderExpiresIn
    \/ SetBuilderContext
    \/ Build
    \/ BuildPanic
    \/ Tick
    \/ UpdateData
    \/ SetContext
    \/ ExtendExpiration
    \/ ExtendExpirationPanic
    \/ SetExpiration
    \/ Discard
    \/ ClearModified
    \/ Clone

Spec == Init /\ [][Next]_vars

\* test_session_expiration: a session is built and used while the clock runs,
\* and neither extend_expiration nor set_expiration is called on it.
NextExpiry ==
    \/ SetBuilderData
    \/ SetBuilderExpiresIn
    \/ SetBuilderContext
    \/ Build
    \/ BuildPanic
    \/ Tick
    \/ UpdateData
    \/ SetContext
    \/ Discard
    \/ ClearModified
    \/ Clone

SpecExpiry == Init /\ [][NextExpiry]_vars

\* A session is configured and built with the default generator, the tests'
\* custom generator, or a custom generator that returns "".
InitBuild == InitWith(Generators \cup {"empty"})

NextBuild ==
    \/ SetBuilderData
    \/ SetBuilderExpiresIn
    \/ SetBuilderContext
    \/ Build
    \/ BuildPanic
    \/ Tick

SpecBuild == InitBuild /\ [][NextBuild]_vars

\* ------------------------------------------------------- threads
Threads == 1..NThreads

\* The handle thread t calls through: handle 1 stays with the spawning thread.
HandleOf(t) == t + 1

\* A Session call and its arguments: k, v of set_context, the duration d of
\* extend_expiration, the payload p of update_data.
SessionCall(op, k, v, d, p) == [op |-> op, k |-> k, v |-> v, d |-> d, p |-> p]

SetContextCall(i) == SessionCall("set_context", K(i), V(i), 0, None)

SerializeCall == SessionCall("serialize", K(0), V(0), 0, None)

ClearModifiedCall == SessionCall("clear_modified", K(0), V(0), 0, None)

ExtendExpirationCall(d) == SessionCall("extend_expiration", K(0), V(0), d, None)

UpdateDataCall(p) == SessionCall("update_data", K(0), V(0), 0, p)

DataCall == SessionCall("data", K(0), V(0), 0, None)

IsModifiedCall == SessionCall("is_modified", K(0), V(0), 0, None)

DiscardCall == SessionCall("discard", K(0), V(0), 0, None)

\* set_expiration(e): the time e travels in the record's d.
SetExpirationCall(e) == SessionCall("set_expiration", K(0), V(0), e, None)

IsWrite(c) ==
    c.op \in {"set_context", "clear_modified", "extend_expiration", "update_data",
              "discard", "set_expiration"}

\* Thread t inserts PerThread keys of its own: key{i} for its range of i.
Inserts(t) == [i \in 1..PerThread |-> SetContextCall((t - 1) * PerThread + i)]

\* A store's save: take the persisted form, then clear_modified().
SaveCalls == <<SerializeCall, ClearModifiedCall>>

\* A session just built from builder b at time 0, cloned once per thread.
BuiltSharedFrom(b) ==
    /\ phase = "built"
    /\ builder = Consumed
    /\ heap = <<[poisoned |-> FALSE, st |-> BuildState(b, 0)]>>
    /\ handles = [i \in 1..(NThreads + 1) |-> BuildHandle(NewBuilder("uuid"), 0, 0, 1)]
    /\ now = 0
    /\ ret = "unit"
    /\ genCalls = 1
    /\ born = [id |-> Generate("uuid", 0), created_at |-> 0]
    /\ dirty = 0
    /\ lock = Unlocked
    /\ pc = [t \in Threads |-> "idle"]
    /\ call = [t \in Threads |-> ClearModifiedCall]
    /\ local = [t \in Threads |-> heap[1]]
    /\ applied = EmptyMap
    /\ wire = <<>>
    /\ asked = heap[1].st.expires_at
    /\ store = NoSessions
    /\ out = NoCall
    /\ auth = NoAuth

\* A session just built with context c0 and no payload, cloned once per thread.
BuiltShared(c0) == BuiltSharedFrom(BuilderContextAll(NewBuilder("uuid"), c0))

sframe == <<phase, builder, handles, now, ret, genCalls, born, dirty, svars>>

\* The thread enters its next Session call.
Call(t) ==
    /\ pc[t] = "idle"
    /\ todo[t] # <<>>
    /\ call' = [call EXCEPT ![t] = Head(todo[t])]
    /\ todo' = [todo EXCEPT ![t] = Tail(@)]
    /\ pc' = [pc EXCEPT ![t] = "wait"]
    /\ UNCHANGED <<sframe, heap, lock, local, applied, wire, asked>>

\* self.state.write() returns with the guard.
AcquireWrite(t) ==
    /\ pc[t] = "wait"
    /\ IsWrite(call[t])
    /\ CanWrite(lock)
    /\ lock' = [lock EXCEPT !.writer = t]
    /\ pc' = [pc EXCEPT ![t] = "held"]
    /\ UNCHANGED <<sframe, heap, call, local, todo, applied, wire, asked>>

\* self.state.read() returns with the guard.
AcquireRead(t) ==
    /\ pc[t] = "wait"
    /\ ~IsWrite(call[t])
    /\ CanRead(lock)
    /\ lock' = [lock EXCEPT !.readers = @ \cup {t}]
    /\ pc' = [pc EXCEPT ![t] = "held"]
    /\ UNCHANGED <<sframe, heap, call, local, todo, applied, wire, asked>>

\* The thread reads the state through its guard.
Load(t) ==
    /\ pc[t] = "held"
    /\ local' = [local EXCEPT ![t] = heap[handles[HandleOf(t)].state]]
    /\ pc' = [pc EXCEPT ![t] = "loaded"]
    /\ UNCHANGED <<sframe, heap, lock, call, todo, applied, wire, asked>>

\* set_context's body: the entry inserted into what the guard showed, and the flag.
StoreSetContext(t) ==
    /\ pc[t] = "loaded"
    /\ call[t].op = "set_context"
    /\ heap' = [heap EXCEPT ![handles[HandleOf(t)].state] =
                    set_context(local[t], call[t].k, call[t].v)]
    /\ applied' = MapInsert(applied, call[t].k, call[t].v)
    /\ pc' = [pc EXCEPT ![t] = "stored"]
    /\ UNCHANGED <<sframe, lock, call, local, todo, wire, asked>>

\* extend_expiration's body: the duration added to what the guard showed, and
\* the flag; an overflowing addition unwinds through the guard and ends the thread.
StoreExtendExpiration(t) ==
    /\ pc[t] = "loaded"
    /\ call[t].op = "extend_expiration"
    /\ heap' = [heap EXCEPT ![handles[HandleOf(t)].state] =
                    extend_expiration(local[t], call[t].d, now)]
    /\ asked' = asked + call[t].d
    /\ todo' = IF ExtendPanics(local[t], call[t].d, now)
               THEN [todo EXCEPT ![t] = <<>>] ELSE todo
    /\ pc' = [pc EXCEPT ![t] = "stored"]
    /\ UNCHANGED <<sframe, lock, call, local, applied, wire>>

\* clear_modified's body.
StoreClearModified(t) ==
    /\ pc[t] = "loaded"
    /\ call[t].op = "clear_modified"
    /\ heap' = [heap EXCEPT ![handles[HandleOf(t)].state] = clear_modified(local[t])]
    /\ pc' = [pc EXCEPT ![t] = "stored"]
    /\ UNCHANGED <<sframe, lock, call, local, todo, applied, wire, asked>>

\* serialize's body: the record is what the guard showed; a failed
\* serialization ends the save.
EmitSerialized(t) ==
    /\ pc[t] = "loaded"
    /\ call[t].op = "serialize"
    /\ LET r == SerializeSession(handles[HandleOf(t)], local[t])
       IN  /\ wire' = IF r.ok THEN r.fields ELSE wire
           /\ todo' = IF r.ok THEN todo ELSE [todo EXCEPT ![t] = <<>>]
    /\ pc' = [pc EXCEPT ![t] = "stored"]
    /\ UNCHANGED <<sframe, heap, lock, call, local, applied, asked>>

\* The guard is dropped and the call returns.
Release(t) ==
    /\ pc[t] = "stored"
    /\ lock' = IF lock.writer = t THEN [lock EXCEPT !.writer = 0]
               ELSE [lock EXCEPT !.readers = @ \ {t}]
    /\ pc' = [pc EXCEPT ![t] = "idle"]
    /\ UNCHANGED <<sframe, heap, call, local, todo, applied, wire, asked>>

AllReturned == \A t \in Threads : pc[t] = "idle" /\ todo[t] = <<>>

\* test_thread_safety: every thread inserts its own keys into the one session.
InitSetContext ==
    /\ \E c0 \in {EmptyMap, MapInsert(EmptyMap, K(0), V(0))} : BuiltShared(c0)
    /\ todo = [t \in Threads |-> Inserts(t)]

NextSetContext ==
    \E t \in Threads :
        \/ Call(t)
        \/ AcquireWrite(t)
        \/ Load(t)
        \/ StoreSetContext(t)
        \/ Release(t)

SpecSetContext == InitSetContext /\ [][NextSetContext]_vars

\* Thread 1 saves the session while the other threads insert entries.
InitSave ==
    /\ \E c0 \in {EmptyMap, MapInsert(EmptyMap, K(0), V(0))} : BuiltShared(c0)
    /\ todo = [t \in Threads |-> IF t = 1 THEN SaveCalls ELSE Inserts(t)]

NextSave ==
    \E t \in Threads :
        \/ Call(t)
        \/ AcquireWrite(t)
        \/ AcquireRead(t)
        \/ Load(t)
        \/ StoreSetContext(t)
        \/ StoreClearModified(t)
        \/ EmitSerialized(t)
        \/ Release(t)

SpecSave == InitSave /\ [][NextSave]_vars

\* ------------------------------------------------------- caller-supplied code
\* The code outside Session that the body of call c runs between taking its
\* guard and dropping it, on cell: the Into<String> conversions of
\* set_context's arguments, the drop of the payload that update_data replaces,
\* the payload's clone in data(), the payload's and the serializer's code in
\* serialize, SystemTime::now in extend_expiration. A poisoned lock skips the body.
ExternalCode(c, cell) ==
    IF cell.poisoned THEN "none"
    ELSE CASE c.op = "set_context" -> "into"
           [] c.op = "update_data" -> IF cell.st.data # None THEN "drop" ELSE "none"
           [] c.op = "data" -> IF cell.st.data # None THEN "clone" ELSE "none"
           [] c.op = "serialize" -> "serialize"
           [] c.op = "extend_expiration" ->
                  IF cell.st.expires_at = NoTime THEN "now" ELSE "none"
           [] OTHER -> "none"

\* The code among these that the caller writes: it may do anything, call the
\* session again or panic.
CallerSupplied == {"into", "drop", "clone", "serialize"}

ApplyCall_touch(c, cell, t) ==
    IF cell.poisoned THEN cell ELSE [cell EXCEPT !.st.modified = TRUE]

\* The cell after the body of call c has run on it at time t.
ApplyCall(c, cell, t) ==
    CASE c.op = "set_context" -> set_context(cell, c.k, c.v)
      [] c.op = "update_data" -> update_data(cell, c.p)
      [] c.op = "extend_expiration" -> extend_expiration(cell, c.d, t)
      [] c.op = "clear_modified" -> clear_modified(cell)
      [] c.op = "discard" -> discard(cell)
      [] c.op = "set_expiration" -> set_expiration(cell, c.d)
      [] OTHER -> cell

HeldCell(t) == heap[handles[HandleOf(t)].state]

\* The body, holding its guard, calls into the code outside Session.
InvokeExternal(t) ==
    /\ pc[t] = "held"
    /\ ExternalCode(call[t], HeldCell(t)) # "none"
    /\ pc' = [pc EXCEPT ![t] = "external"]
    /\ UNCHANGED <<sframe, heap, lock, call, local, todo, applied, wire, asked>>

\* That code returns.
ExternalReturns(t) ==
    /\ pc[t] = "external"
    /\ pc' = [pc EXCEPT ![t] = "returned"]
    /\ UNCHANGED <<sframe, heap, lock, call, local, todo, applied, wire, asked>>

\* Caller-supplied code calls an operation of the same session that needs
\* the lock in a mode the held guard excludes: the thread waits for itself.
ExternalReenters(t) ==
    /\ pc[t] = "external"
    /\ ExternalCode(call[t], HeldCell(t)) \in CallerSupplied
    /\ pc' = [pc EXCEPT ![t] = "blocked"]
    /\ UNCHANGED <<sframe, heap, lock, call, local, todo, applied, wire, asked>>

\* Caller-supplied code panics: the guard is dropped while unwinding, and a
\* write guard dropped that way poisons the lock.
ExternalPanics(t) ==
    /\ pc[t] = "external"
    /\ ExternalCode(call[t], HeldCell(t)) \in CallerSupplied
    /\ heap' = [heap EXCEPT ![handles[HandleOf(t)].state].poisoned =
                    @ \/ lock.writer = t]
    /\ lock' = IF lock.writer = t THEN [lock EXCEPT !.writer = 0]
               ELSE [lock EXCEPT !.readers = @ \ {t}]
    /\ todo' = [todo EXCEPT ![t] = <<>>]
    /\ pc' = [pc EXCEPT ![t] = "idle"]
    /\ UNCHANGED <<sframe, call, local, applied, wire, asked>>

\* The rest of the body.
Complete(t) ==
    /\ \/ pc[t] = "returned"
       \/ pc[t] = "held" /\ ExternalCode(call[t], HeldCell(t)) = "none"
    /\ heap' = [heap EXCEPT ![handles[HandleOf(t)].state] =
                    ApplyCall(call[t], HeldCell(t), now)]
    /\ pc' = [pc EXCEPT ![t] = "stored"]
    /\ UNCHANGED <<sframe, lock, call, local, todo, applied, wire, asked>>

\* The calls whose bodies run code outside Session, and one that runs none.
BodyCalls ==
    {SetContextCall(1), UpdateDataCall("p2"), DataCall, SerializeCall,
     ExtendExpirationCall(1), ClearModifiedCall}

\* Every thread makes one call on the one session, built with or without a payload.
InitReentry ==
    /\ \E d \in {None, "p1"} : BuiltSharedFrom(BuilderData(NewBuilder("uuid"), d))
    /\ todo \in [Threads -> {<<c>> : c \in BodyCalls}]

NextReentry ==
    \E t \in Threads :
        \/ Call(t)
        \/ AcquireWrite(t)
        \/ AcquireRead(t)
        \/ InvokeExternal(t)
        \/ ExternalReturns(t)
        \/ ExternalReenters(t)
        \/ ExternalPanics(t)
        \/ Complete(t)
        \/ Release(t)

SpecReentry == InitReentry /\ [][NextReentry]_vars

\* What thread t does once the lock has granted its request, up to its return.
RunCall(t) ==
    \/ Call(t)
    \/ InvokeExternal(t)
    \/ ExternalReturns(t)
    \/ ExternalReenters(t)
    \/ ExternalPanics(t)
    \/ Complete(t)
    \/ Release(t)

\* The lock grants the request of thread t.
Granted(t) == AcquireWrite(t) \/ AcquireRead(t)

\* The same threads under a scheduler that keeps running every thread that can
\* take a step, and a lock that grants every request that it can grant again
\* and again.
SpecTermination ==
    /\ InitReentry
    /\ [][NextReentry]_vars
    /\ \A t \in Threads : WF_vars(RunCall(t)) /\ SF_vars(Granted(t))

\* ------------------------------------------------------- reads
\* The operations that take `&self` and the read guard, or no guard at all.
ReadOps ==
    {"id", "created_at", "expires_at", "is_expired", "is_modified", "is_discarded",
     "has_data", "data", "get_context", "context", "eq", "serialize"}

\* A read operation called through handle h.
ReadThrough ==
    \E h \in DOMAIN handles, op \in ReadOps :
        /\ heap' = [heap EXCEPT ![handles[h].state] =
                        ApplyCall(SessionCall(op, K(1), V(0), 0, None), Cell(h), now)]
        /\ ret' = "read"
        /\ UNCHANGED <<phase, builder, handles, now, genCalls, born, dirty, tvars>>

\* A session is built, cloned, discarded and read while the clock runs.
NextReads ==
    \/ SetBuilderData
    \/ SetBuilderExpiresIn
    \/ SetBuilderContext
    \/ Build
    \/ BuildPanic
    \/ Tick
    \/ Discard
    \/ ClearModified
    \/ Clone
    \/ ReadThrough

SpecReads == Init /\ [][NextReads]_vars

\* ------------------------------------------------------- readers beside writers
\* A mutator's first assignment, to the field: `state.data = data`,
\* `state.context.insert(..)`, `state.expires_at = ..`. An overflowing
\* addition in extend_expiration unwinds instead and ends the thread.
StoreField(t) ==
    /\ pc[t] = "loaded"
    /\ call[t].op \in {"set_context", "update_data", "extend_expiration"}
    /\ LET c2 == ApplyCall(call[t], local[t], now)
           panics == call[t].op = "extend_expiration"
                        /\ ExtendPanics(local[t], call[t].d, now)
       IN  /\ heap' = [heap EXCEPT ![handles[HandleOf(t)].state] =
                           [c2 EXCEPT !.st.modified = local[t].st.modified]]
           /\ todo' = IF panics THEN [todo EXCEPT ![t] = <<>>] ELSE todo
           /\ pc' = [pc EXCEPT ![t] = IF panics THEN "stored" ELSE "fielded"]
    /\ UNCHANGED <<sframe, lock, call, local, applied, wire, asked>>

\* A mutator's second assignment: `state.modified = true`.
StoreFlag(t) ==
    /\ pc[t] = "fielded"
    /\ heap' = [heap EXCEPT ![handles[HandleOf(t)].state] =
                    ApplyCall(call[t], local[t], now)]
    /\ pc' = [pc EXCEPT ![t] = "stored"]
    /\ UNCHANGED <<sframe, lock, call, local, todo, applied, wire, asked>>

\* is_modified()'s body: the flag is what the guard showed.
ReadFlag(t) ==
    /\ pc[t] = "loaded"
    /\ call[t].op = "is_modified"
    /\ pc' = [pc EXCEPT ![t] = "stored"]
    /\ UNCHANGED <<sframe, heap, lock, call, local, todo, applied, wire, asked>>

\* What is_modified() returned to thread t from its last read.
SawModified(t) == ~local[t].poisoned /\ local[t].st.modified

\* The calls the writing threads make.
WriterCalls ==
    {SetContextCall(1), UpdateDataCall("p2")}
        \cup {ExtendExpirationCall(d) : d \in Durations}

\* The builder of the session that the threads share.
TornBuilder == BuilderExpiresIn(BuilderData(NewBuilder("uuid"), "p1"), MaxDur)

\* Thread 1 reads the session's fields and then is_modified(), while every
\* other thread makes PerThread mutating calls.
InitTorn ==
    /\ BuiltSharedFrom(TornBuilder)
    /\ \E w \in [(Threads \ {1}) -> [1..PerThread -> WriterCalls]] :
          todo = [t \in Threads |->
                    IF t = 1 THEN <<SerializeCall, IsModifiedCall>> ELSE w[t]]

NextTorn ==
    \E t \in Threads :
        \/ Call(t)
        \/ AcquireWrite(t)
        \/ AcquireRead(t)
        \/ Load(t)
        \/ StoreField(t)
        \/ StoreFlag(t)
        \/ EmitSerialized(t)
        \/ ReadFlag(t)
        \/ Release(t)

SpecTorn == InitTorn /\ [][NextTorn]_vars

\* ------------------------------------------------------- concurrent calls
\* What call c returns when its guard showed cell.
ReturnOf(c, cell) ==
    CASE c.op = "is_modified" -> IF ~cell.poisoned /\ cell.st.modified THEN "true" ELSE "false"
      [] c.op = "data" -> IF cell.poisoned THEN None ELSE cell.st.data
      [] OTHER -> "unit"

\* data()'s body: the payload is what the guard showed.
ReadData(t) ==
    /\ pc[t] = "loaded"
    /\ call[t].op = "data"
    /\ pc' = [pc EXCEPT ![t] = "stored"]
    /\ UNCHANGED <<sframe, heap, lock, call, local, todo, applied, wire, asked>>

\* The guard is dropped and the call returns its value: `applied` lists the
\* calls with the values they returned, in the order in which they dropped
\* their guards.
Return(t) ==
    /\ pc[t] = "stored"
    /\ lock' = IF lock.writer = t THEN [lock EXCEPT !.writer = 0]
               ELSE [lock EXCEPT !.readers = @ \ {t}]
    /\ applied' = Append(applied, [call |-> call[t], value |-> ReturnOf(call[t], local[t])])
    /\ pc' = [pc EXCEPT ![t] = "idle"]
    /\ UNCHANGED <<sframe, heap, call, local, todo, wire, asked>>

\* The calls the threads make: mutators, among them a clear_modified and an
\* extend_expiration whose second call overflows, and reads.
LinearCalls ==
    {SetContextCall(1), ClearModifiedCall, UpdateDataCall("p2"),
     ExtendExpirationCall(1), IsModifiedCall, DataCall}

\* Thread 1 makes two calls one after the other, every other thread one call.
InitLinear ==
    /\ BuiltSharedFrom(TornBuilder)
    /\ applied = <<>>
    /\ \E c \in [Threads -> LinearCalls], c2 \in LinearCalls :
          todo = [t \in Threads |-> IF t = 1 THEN <<c[t], c2>> ELSE <<c[t]>>]

NextLinear ==
    \E t \in Threads :
        \/ Call(t)
        \/ AcquireWrite(t)
        \/ AcquireRead(t)
        \/ Load(t)
        \/ StoreField(t)
        \/ StoreFlag(t)
        \/ StoreClearModified(t)
        \/ ReadFlag(t)
        \/ ReadData(t)
        \/ Return(t)

SpecLinear == InitLinear /\ [][NextLinear]_vars

\* test_session_equality builds session1 and session3.
Sessions == 2

\* test_session_equality: the sessions are built one after the other from
\* equally configured builders, cloned and mutated. `builder` is the
\* configuration every SessionBuilder of the run is given.
BuildAnother ==
    /\ Len(heap) < Sessions
    /\ ~BuildPanics(builder, now)
    /\ heap' = Append(heap, [poisoned |-> FALSE, st |-> BuildState(builder, now)])
    /\ handles' = Append(handles, BuildHandle(builder, now, genCalls, Len(heap) + 1))
    /\ genCalls' = genCalls + 1
    /\ born' = [id |-> Generate(builder.id_generator, genCalls), created_at |-> now]
    /\ ret' = "unit"
    /\ UNCHANGED <<phase, builder, now, dirty, tvars>>

\* session.clone(), one clone more than there can be sessions.
CloneAny ==
    \E h \in DOMAIN handles :
        /\ Len(handles) <= MaxHandles
        /\ handles' = SessionClone(h).handles
        /\ heap' = SessionClone(h).heap
        /\ ret' = "unit"
        /\ UNCHANGED <<phase, builder, now, genCalls, born, dirty, tvars>>

NextEquality ==
    \/ BuildAnother
    \/ CloneAny
    \/ Tick
    \/ UpdateData
    \/ Discard
    \/ ClearModified

SpecEquality == Init /\ [][NextEquality]_vars

\* ------------------------------------------------------- sessions in a store
\* An id that no session has.
UnknownId == <<"unknown", 0>>

\* The ids that load and delete are called with.
StoreIds == {handles[h].id : h \in DOMAIN handles} \cup {UnknownId}

\* The builder of the i-th session: payload p{i}, expiration e.
StoredBuilder(g, i, e) ==
    BuilderExpiresIn(BuilderData(NewBuilder(g), IF i = 1 THEN "p1" ELSE "p2"), e)

\* The sessions are built at time 0 with one generator, each with an
\* expiration of its own or none; the store is empty.
InitStore ==
    /\ phase = "built"
    /\ builder = Consumed
    /\ \E g \in Generators, e \in [1..Sessions -> Durations \cup {NoTime}] :
          /\ heap = [i \in 1..Sessions |->
                        [poisoned |-> FALSE, st |-> BuildState(StoredBuilder(g, i, e[i]), 0)]]
          /\ handles = [i \in 1..Sessions |->
                           BuildHandle(StoredBuilder(g, i, e[i]), 0, i - 1, i)]
          /\ born = [id |-> Generate(g, Sessions - 1), created_at |-> 0]
    /\ now = 0
    /\ ret = "unit"
    /\ genCalls = Sessions
    /\ dirty = 0
    /\ lock = Unlocked
    /\ pc = <<>>
    /\ call = <<>>
    /\ local = <<>>
    /\ todo = <<>>
    /\ applied = EmptyMap
    /\ wire = <<>>
    /\ asked = NoTime
    /\ store = NoSessions
    /\ out = NoCall
    /\ auth = NoAuth

stframe == <<auth, phase, builder, handles, now, ret, genCalls, born,
             lock, pc, call, local, todo, applied, wire, asked>>

\* store.save(&session): the clone is inserted, then clear_modified().
StoreSave(h) ==
    /\ store' = MemSave(store, handles[h])
    /\ heap' = [heap EXCEPT ![handles[h].state] = clear_modified(Cell(h))]
    /\ dirty' = 0
    /\ out' = StoreRet("save", <<>>, 0)
    /\ UNCHANGED stframe

\* store.load(i)
StoreLoad(i) ==
    /\ out' = StoreRet("load", MemLoad(store, i), 0)
    /\ UNCHANGED <<stframe, heap, dirty, store>>

\* store.delete(i)
StoreDelete(i) ==
    /\ store' = MemDelete(store, i)
    /\ out' = StoreRet("delete", <<>>, 0)
    /\ UNCHANGED <<stframe, heap, dirty>>

\* store.cleanup_expired(): returns before - store.len().
StoreCleanup ==
    /\ store' = MemCleanup(store, heap, now)
    /\ out' = StoreRet("cleanup", <<>>,
                       Cardinality(DOMAIN store) - Cardinality(DOMAIN store'))
    /\ UNCHANGED <<stframe, heap, dirty>>

SaveSession == \E h \in DOMAIN handles : StoreSave(h)

LoadSession == \E i \in StoreIds : StoreLoad(i)

DeleteSession == \E i \in StoreIds : StoreDelete(i)

NextStore ==
    \/ SaveSession
    \/ LoadSession
    \/ DeleteSession
    \/ StoreCleanup
    \/ Discard
    \/ Tick

SpecStore == InitStore /\ [][NextStore]_vars

\* ------------------------------------------------------- a session per thread
\* The lock that a call of thread t acquires: the one in its handle's Arc.
LockOf(t) == handles[HandleOf(t)].state

\* The calls the threads make on their sessions.
OwnCalls ==
    {SetContextCall(1), UpdateDataCall("p2"), UpdateDataCall(None), DiscardCall,
     ClearModifiedCall, DataCall, ExtendExpirationCall(1),
     SetExpirationCall(NoTime), SetExpirationCall(1)}

\* The builder every session of the run is built from.
OwnBuilder == BuilderContext(BuilderData(NewBuilder("uuid"), "p1"), K(2), V(2))

\* One session built per thread at time 0, all from equal builders; handle 1
\* is a clone of the first that the spawning thread keeps. `lock` holds one
\* lock per session here.
InitIndependent ==
    /\ phase = "built"
    /\ builder = Consumed
    /\ heap = [c \in Threads |-> [poisoned |-> FALSE, st |-> BuildState(OwnBuilder, 0)]]
    /\ handles = [i \in 1..(NThreads + 1) |->
                     IF i = 1 THEN BuildHandle(OwnBuilder, 0, 0, 1)
                     ELSE BuildHandle(OwnBuilder, 0, i - 2, i - 1)]
    /\ now = 0
    /\ ret = "unit"
    /\ genCalls = NThreads
    /\ born = [id |-> Generate("uuid", NThreads - 1), created_at |-> 0]
    /\ dirty = 0
    /\ lock = [c \in Threads |-> Unlocked]
    /\ pc = [t \in Threads |-> "idle"]
    /\ call = [t \in Threads |-> ClearModifiedCall]
    /\ local = [t \in Threads |-> heap[1]]
    /\ todo \in [Threads -> {<<c>> : c \in OwnCalls}]
    /\ applied = EmptyMap
    /\ wire = <<>>
    /\ asked = NoTime
    /\ store = NoSessions
    /\ out = NoCall
    /\ auth = NoAuth

\* self.state.write() on the thread's own session returns with the guard.
AcquireWriteOwn(t) ==
    /\ pc[t] = "wait"
    /\ IsWrite(call[t])
    /\ CanWrite(lock[LockOf(t)])
    /\ lock' = [lock EXCEPT ![LockOf(t)].writer = t]
    /\ pc' = [pc EXCEPT ![t] = "held"]
    /\ UNCHANGED <<sframe, heap, call, local, todo, applied, wire, asked>>

\* self.state.read() on the thread's own session returns with the guard.
AcquireReadOwn(t) ==
    /\ pc[t] = "wait"
    /\ ~IsWrite(call[t])
    /\ CanRead(lock[LockOf(t)])
    /\ lock' = [lock EXCEPT ![LockOf(t)].readers = @ \cup {t}]
    /\ pc' = [pc EXCEPT ![t] = "held"]
    /\ UNCHANGED <<sframe, heap, call, local, todo, applied, wire, asked>>

\* The body of the call, on the state behind the guard.
RunBody(t) ==
    /\ pc[t] = "held"
    /\ heap' = [heap EXCEPT ![LockOf(t)] = ApplyCall(call[t], heap[LockOf(t)], now)]
    /\ local' = [local EXCEPT ![t] = heap[LockOf(t)]]
    /\ pc' = [pc EXCEPT ![t] = "stored"]
    /\ UNCHANGED <<sframe, lock, call, todo, applied, wire, asked>>

\* The guard is dropped and the call returns.
ReleaseOwn(t) ==
    /\ pc[t] = "stored"
    /\ lock' = [lock EXCEPT ![LockOf(t)] =
                    IF @.writer = t THEN [@ EXCEPT !.writer = 0]
                    ELSE [@ EXCEPT !.readers = @ \ {t}]]
    /\ pc' = [pc EXCEPT ![t] = "idle"]
    /\ UNCHANGED <<sframe, heap, call, local, todo, applied, wire, asked>>

NextIndependent ==
    \E t \in Threads :
        \/ Call(t)
        \/ AcquireWriteOwn(t)
        \/ AcquireReadOwn(t)
        \/ RunBody(t)
        \/ ReleaseOwn(t)

SpecIndependent == InitIndependent /\ [][NextIndependent]_vars

\* Every thread extends the expiration of the one session, built with expires_in(e).
InitExtend ==
    /\ \E e \in Durations : BuiltSharedFrom(BuilderExpiresIn(NewBuilder("uuid"), e))
    /\ todo \in [Threads -> {<<ExtendExpirationCall(d)>> : d \in Durations}]

NextExtend ==
    \E t \in Threads :
        \/ Call(t)
        \/ AcquireWrite(t)
        \/ Load(t)
        \/ StoreExtendExpiration(t)
        \/ Release(t)

SpecExtend == InitExtend /\ [][NextExtend]_vars

\* ------------------------------------------------------- round trip
\* Every state a session can be in when it is serialized.
SessionStates ==
    [data : OptPayloads, context : Contexts, expires_at : OptTimes,
     modified : BOOLEAN, discarded : BOOLEAN]

InitSerde ==
    /\ phase = "built"
    /\ builder = Consumed
    /\ \E g \in Generators, t \in Times :
          /\ handles = <<BuildHandle(NewBuilder(g), t, 0, 1)>>
          /\ born = [id |-> Generate(g, 0), created_at |-> t]
          /\ now = t
    /\ \E st \in SessionStates, p \in BOOLEAN : heap = <<[poisoned |-> p, st |-> st]>>
    /\ ret = "unit"
    /\ genCalls = 1
    /\ dirty = 0
    /\ lock = Unlocked
    /\ pc = <<>>
    /\ call = <<>>
    /\ local = <<>>
    /\ todo = <<>>
    /\ applied = EmptyMap
    /\ wire = <<>>
    /\ asked = NoTime
    /\ store = NoSessions
    /\ out = NoCall
    /\ auth = NoAuth

\* serde_json::to_string(&session) succeeds.
Serialize ==
    /\ wire = <<>>
    /\ SerializeSession(handles[1], Cell(1)).ok
    /\ wire' = SerializeSession(handles[1], Cell(1)).fields
    /\ ret' = "unit"
    /\ UNCHANGED <<phase, builder, handles, heap, now, genCalls, born, dirty,
                   lock, pc, call, local, todo, applied, asked, svars>>

\* serde_json::to_string(&session) returns the lock error.
SerializeFails ==
    /\ wire = <<>>
    /\ ret = "unit"
    /\ ~SerializeSession(handles[1], Cell(1)).ok
    /\ ret' = "error"
    /\ UNCHANGED <<phase, builder, handles, heap, now, genCalls, born, dirty, tvars>>

Deserialize_shared ==
    /\ wire # <<>>
    /\ Len(handles) = 1
    /\ DeserializeSession(wire).ok
    /\ handles' = Append(handles, [handles[1] EXCEPT !.id = DeserializeSession(wire).handle.id])
    /\ ret' = "unit"
    /\ UNCHANGED <<phase, builder, heap, now, genCalls, born, dirty, tvars>>

\* serde_json::from_str(&json): the restored session is a new handle on a new lock.
Deserialize ==
    /\ wire # <<>>
    /\ Len(handles) = 1
    /\ LET r == DeserializeSession(wire)
       IN  /\ r.ok
           /\ handles' = Append(handles, [id |-> r.handle.id,
                                          created_at |-> r.handle.created_at,
                                          state |-> Len(heap) + 1])
           /\ heap' = Append(heap, [poisoned |-> FALSE, st |-> r.st[1]])
    /\ ret' = "unit"
    /\ UNCHANGED <<phase, builder, now, genCalls, born, dirty, tvars>>

NextSerde ==
    \/ Serialize
    \/ SerializeFails
    \/ Deserialize

SpecSerde == InitSerde /\ [][NextSerde]_vars

\* A session is built and then mutated through its handles, also after one of
\* the calls has poisoned its lock.
NextPoisoned ==
    \/ Build
    \/ UpdateData
    \/ SetContext
    \/ ExtendExpiration
    \/ ExtendExpirationPanic
    \/ SetExpiration
    \/ Discard
    \/ ClearModified
    \/ Clone

SpecPoisoned == Init /\ [][NextPoisoned]_vars

\* A session is built, saved to a record and restored from it; the original
\* and the restored session are mutated before and after.
NextRestore ==
    \/ SetBuilderContext
    \/ Build
    \/ phase = "built" /\ Serialize
    \/ Deserialize
    \/ UpdateData
    \/ Discard
    \/ ClearModified

SpecRestore == Init /\ [][NextRestore]_vars

\* A session is built with or without expiration, cloned and extended while
\* the clock runs, up to and past its expiry.
NextExpired ==
    \/ SetBuilderExpiresIn
    \/ Build
    \/ BuildPanic
    \/ Tick
    \/ ExtendExpiration
    \/ ExtendExpirationPanic
    \/ Clone

SpecExpired == Init /\ [][NextExpired]_vars

\* ------------------------------------------------------- records received
\* The records a deserializer may be given for a session, as sequences of
\* field names: every record of up to three entries, and the session's own
\* record with two entries exchanged, with one entry left out, or with one
\* more entry, of a field of Session or of an unknown name, at any place.
WireShapes ==
    LET names == FieldNames \cup {"unknown"}
        own == <<"id", "created_at", "data", "context", "expires_at">>
        n == Len(own)
    IN  UNION {[1..m -> names] : m \in 1..(n - 2)}
        \cup {[i \in 1..n |-> own[IF i = a THEN b ELSE IF i = b THEN a ELSE i]] :
                 a \in 1..n, b \in 1..n}
        \cup {[i \in 1..(n - 1) |-> own[IF i < a THEN i ELSE i + 1]] : a \in 1..n}
        \cup {[i \in 1..(n + 1) |->
                 IF i < a THEN own[i] ELSE IF i = a THEN f ELSE own[i - 1]] :
                 a \in 1..(n + 1), f \in names}

\* Those records with the session's own values in the entries.
WireInputs(hd, st) ==
    LET own == SerializeFields(hd, st)
        entry == [f \in FieldNames \cup {"unknown"} |->
                     IF f \in FieldNames
                     THEN own[CHOOSE i \in DOMAIN own : own[i][1] = f]
                     ELSE <<f, None>>]
    IN  {[i \in DOMAIN fs |-> entry[fs[i]]] : fs \in WireShapes}

\* serde_json::from_str(&json) on a record received: a new session on a new
\* lock, or the error of visit_map.
DeserializeWire ==
    /\ wire = <<>>
    /\ \E w \in WireInputs(handles[1], St(1)) :
          LET r == DeserializeSession(w)
          IN  /\ wire' = w
              /\ ret' = IF r.ok THEN "unit" ELSE r.err
              /\ handles' = IF r.ok
                            THEN Append(handles, [id |-> r.handle.id,
                                                  created_at |-> r.handle.created_at,
                                                  state |-> Len(heap) + 1])
                            ELSE handles
              /\ heap' = IF r.ok THEN Append(heap, [poisoned |-> FALSE, st |-> r.st[1]])
                         ELSE heap
    /\ UNCHANGED <<phase, builder, now, genCalls, born, dirty,
                   lock, pc, call, local, todo, applied, asked, svars>>

\* A session with payload and expiration, or with neither, and no call in progress.
InitWire ==
    /\ \E b \in {TornBuilder, NewBuilder("uuid")} : BuiltSharedFrom(b)
    /\ todo = [t \in Threads |-> <<>>]

NextWire == DeserializeWire

SpecWire == InitWire /\ [][NextWire]_vars

\* ------------------------------------------------------- requests
\* A handler that takes Auth<A, E> is given a request.
ExtractAuth ==
    /\ \E a \in Authenticators, e \in Extracted :
          auth' = [form |-> "required", a |-> a, e |-> e,
                   result |-> <<FromRequestParts(a, e).result>>,
                   calls |-> FromRequestParts(a, e).calls]
    /\ UNCHANGED <<phase, builder, handles, heap, now, ret, genCalls, born, dirty,
                   lock, pc, call, local, todo, applied, wire, asked, store, out>>

\* A handler that takes Option<Auth<A, E>> is given a request.
ExtractOptionalAuth ==
    /\ \E a \in Authenticators, e \in Extracted :
          auth' = [form |-> "optional", a |-> a, e |-> e,
                   result |-> <<OptionalFromRequestParts(a, e).result>>,
                   calls |-> OptionalFromRequestParts(a, e).calls]
    /\ UNCHANGED <<phase, builder, handles, heap, now, ret, genCalls, born, dirty,
                   lock, pc, call, local, todo, applied, wire, asked, store, out>>

NextAuth == ExtractAuth \/ ExtractOptionalAuth

SpecAuth == Init /\ [][NextAuth]_vars

\* ------------------------------------------------------- properties
Hs == DOMAIN handles

\* C1: through every handle (the built one and every clone), after any
\* sequence of operations, id() and created_at() are the values build() gave.
C1_IdentityImmutable ==
    \A h \in Hs : id(h) = born.id /\ created_at(h) = born.created_at

\* A clone taken after the clock advanced, with mutations made through it.
C1_Witness ==
    /\ Len(handles) >= 2
    /\ dirty = 2
    /\ now > born.created_at
    /\ is_modified(1)
    /\ is_discarded(1)
    /\ id(2) = born.id

\* Everything a handle's read operations return.
Reads(h) ==
    [data |-> data(h), has_data |-> has_data(h), context |-> context(h),
     get_context |-> [k \in Keys |-> get_context(h, k)],
     expires_at |-> expires_at(h), is_modified |-> is_modified(h),
     is_discarded |-> is_discarded(h)]

\* C4: every read through any clone returns what it returns through any
\* other handle of the session, after any mutation through any of them.
C4_ClonesShareState ==
    \A h1, h2 \in Hs : Reads(h1) = Reads(h2)

\* The last mutation went through the second handle and is read through the first.
C4_Witness ==
    /\ Len(handles) >= 2
    /\ dirty = 2
    /\ is_modified(1)
    /\ get_context(1, K(1)) = V(2)
    /\ data(1) = "p2"

\* The context entry that the persisted record holds for key k.
WireContext == IF wire = <<>> THEN EmptyMap ELSE wire[4][2]

\* C2: when all threads have returned from their set_context calls, every
\* inserted key is in the context with its value, and the threads' keys make
\* NThreads * PerThread entries; no stored entry is lost meanwhile either.
C2_NoLostUpdate ==
    /\ \A k \in DOMAIN applied : get_context(1, k) = applied[k]
    /\ AllReturned =>
         /\ Cardinality(DOMAIN applied) = NThreads * PerThread
         /\ Cardinality(DOMAIN context(1) \ {K(0)}) = NThreads * PerThread

\* All threads returned after inserting into an empty context.
C2_Witness ==
    /\ AllReturned
    /\ Cardinality(DOMAIN context(1)) = NThreads * PerThread
    /\ get_context(1, K(1)) = V(1)
    /\ get_context(1, K(NThreads * PerThread)) = V(NThreads * PerThread)
    /\ is_modified(1)

\* C3 as stated: whenever is_modified() is false, every entry a set_context
\* stored so far is in the last persisted record.
C3_NoRaceWindow ==
    ~is_modified(1) =>
        \A k \in DOMAIN applied :
            k \in DOMAIN WireContext /\ WireContext[k] = applied[k]

\* C5 as stated: is_modified() is true whenever a mutator has returned since
\* construction or the last clear_modified().
C5_ModifiedAfterMutation ==
    dirty # 0 => \A h \in Hs : is_modified(h)

\* C6: clear_modified() leaves is_modified() false and changes nothing else,
\* and is_modified() stays false over every step that is no mutator.
C6_ClearModifiedFrame ==
    [][/\ (Tick \/ Clone) /\ (\A h \in Hs : ~is_modified(h))
           => \A h \in DOMAIN handles' : ~is_modified(h)'
       /\ ClearModified =>
        \A h \in Hs :
            /\ ~is_modified(h)'
            /\ data(h)' = data(h)
            /\ context(h)' = context(h)
            /\ expires_at(h)' = expires_at(h)
            /\ is_discarded(h)' = is_discarded(h)
            /\ \E m \in BOOLEAN : heap'[handles[h].state].st = [St(h) EXCEPT !.modified = m]
            /\ ReadOk(h)' = ReadOk(h)]_vars

\* A cleared session that keeps the discard mark, payload and context.
C6_Witness ==
    /\ phase = "built"
    /\ dirty = 0
    /\ ~is_modified(1)
    /\ is_discarded(1)
    /\ has_data(1)
    /\ context(1) # EmptyMap

\* C7: the session build() returns is neither modified nor discarded,
\* whatever the builder was given.
C7_BuildClean ==
    [][Build => ~is_modified(1)' /\ ~is_discarded(1)' /\ ~heap'[1].st.modified]_vars

\* Just built from a builder that was given a payload, a context and a duration.
C7_Witness ==
    /\ phase = "built"
    /\ dirty = 0
    /\ Len(handles) = 1
    /\ data(1) = "p1"
    /\ DOMAIN context(1) = Keys
    /\ expires_at(1) # NoTime
    /\ ~is_modified(1)
    /\ ~is_discarded(1)

\* C8: the session deserialized from a session's serialized form has the same
\* id, created_at, payload, context and expires_at, and both flags false,
\* whatever the flags of the serialized session were.
C8_RoundTrip ==
    Len(handles) = 2 =>
        /\ id(2) = id(1)
        /\ created_at(2) = created_at(1)
        /\ data(2) = St(1).data
        /\ context(2) = St(1).context
        /\ expires_at(2) = St(1).expires_at
        /\ ~is_modified(2)
        /\ ~is_discarded(2)
        /\ ReadOk(2)

\* Restored from a session that was modified and discarded, with payload,
\* context and expiration.
C8_Witness ==
    /\ Len(handles) = 2
    /\ St(1).modified
    /\ St(1).discarded
    /\ data(2) = "p1"
    /\ DOMAIN context(2) = Keys
    /\ expires_at(2) = 2
    /\ created_at(2) = 1

\* The field names of a serialized record, in order.
WireNames(w) == [i \in 1..Len(w) |-> w[i][1]]

\* C9: the record a session serializes to is the same for every value of its
\* two flags, and holds exactly the five fields.
C9_FlagsNotSerialized ==
    /\ \A m, d \in BOOLEAN :
          SerializeSession(handles[1], [Cell(1) EXCEPT !.st.modified = m,
                                                       !.st.discarded = d])
              = SerializeSession(handles[1], Cell(1))
    /\ wire # <<>> =>
          /\ wire = SerializeSession(handles[1], Cell(1)).fields
          /\ WireNames(wire) = <<"id", "created_at", "data", "context", "expires_at">>

\* A record serialized from a session with both flags set.
C9_Witness ==
    /\ wire # <<>>
    /\ St(1).modified
    /\ St(1).discarded
    /\ St(1).data = "p2"

\* C10: a session whose expires_at is absent is not expired, at every time.
C10_NoExpiryNeverExpired ==
    \A h \in Hs : St(h).expires_at = NoTime => ~is_expired(h)

\* Time has passed and mutators have run on a session without expiration.
C10_Witness ==
    /\ phase = "built"
    /\ now >= 2
    /\ dirty # 0
    /\ St(1).expires_at = NoTime
    /\ ReadOk(1)
    /\ is_discarded(1)

ExtendsBy(h, d) ==
    /\ ExtendExpiration \/ ExtendExpirationPanic
    /\ heap' = [heap EXCEPT ![handles[h].state] = extend_expiration(Cell(h), d, now)]

\* C12 as stated: for every duration d, extend_expiration(d) on a session whose
\* expires_at is t leaves expires_at = t + d, strictly greater than t.
C12_ExtendAddsDuration ==
    [][\A h \in Hs, d \in Durations :
          expires_at(h) # NoTime /\ ExtendsBy(h, d) =>
              /\ expires_at(h)' = expires_at(h) + d
              /\ expires_at(h)' > expires_at(h)]_vars

\* C13 as stated: extend_expiration(d) on a session that has no expiration
\* leaves expires_at = (time of the call) + d and keeps payload, context and
\* the discard mark.
C13_ExtendStartsCountdown ==
    [][\A h \in Hs, d \in Durations :
          ReadOk(h) /\ expires_at(h) = NoTime /\ ExtendsBy(h, d) =>
              /\ expires_at(h)' = now + d
              /\ data(h)' = data(h)
              /\ context(h)' = context(h)
              /\ is_discarded(h)' = is_discarded(h)]_vars

\* C14 as stated: when every thread has returned from its extend_expiration
\* call, expires_at is the initial value plus every thread's duration.
C14_NoLostExtension ==
    AllReturned => expires_at(1) = asked

\* C15: two handles compare equal exactly when their ids are equal, whatever
\* their created_at, payload, context, expires_at and flags are; handles of
\* the same session (a session and its clones) are equal after every mutation.
C15_EqualityById ==
    \A h1, h2 \in Hs :
        /\ SessionEq(h1, h2) <=> id(h1) = id(h2)
        /\ handles[h1].state = handles[h2].state => SessionEq(h1, h2)

\* Two handles with one id that differ in created_at, payload and flags, and a
\* clone of a session after mutations.
C15_Witness ==
    \E h1, h2, h3 \in Hs :
        /\ h1 # h3
        /\ handles[h1].state = handles[h3].state
        /\ handles[h1].state # handles[h2].state
        /\ id(h1) = id(h2)
        /\ created_at(h1) # created_at(h2)
        /\ data(h1) # data(h2)
        /\ is_discarded(h1) /\ ~is_discarded(h2)
        /\ is_modified(h1) /\ ~is_modified(h2)
        /\ SessionEq(h1, h2)
        /\ SessionEq(h1, h3)

\* C16 as stated: handles of sessions from separate build() calls are never
\* equal, whatever the identifier-generation strategy.
C16_SeparateBuildsNeverEqual ==
    \A h1, h2 \in Hs :
        handles[h1].state # handles[h2].state => ~SessionEq(h1, h2)

\* C16, amended: with the default UUID v4 strategy, handles of sessions from
\* separate build() calls are never equal; with a strategy that returns one
\* string on every call they are equal.
C16_UuidBuildsNeverEqual ==
    \A h1, h2 \in Hs :
        handles[h1].state # handles[h2].state =>
            /\ builder.id_generator = "uuid" => ~SessionEq(h1, h2)
            /\ builder.id_generator = "custom" => SessionEq(h1, h2)

\* Two sessions built at one time with the same payload and context by the
\* UUID strategy, unchanged since.
C16_Witness ==
    /\ Len(heap) = 2
    /\ builder.id_generator = "uuid"
    /\ heap[1] = heap[2]
    /\ dirty = 0
    /\ \E h1, h2 \in Hs :
          /\ handles[h1].state = 1
          /\ handles[h2].state = 2
          /\ created_at(h1) = created_at(h2)
          /\ ~SessionEq(h1, h2)

\* C17 as stated: no thread is in code outside Session while it holds a guard
\* of the session lock, no thread waits for a lock it holds itself, and the
\* lock is never poisoned.
C17_NoLockAcrossExternalCode ==
    /\ \A t \in Threads :
          pc[t] = "external" => lock.writer # t /\ t \notin lock.readers
    /\ \A t \in Threads : pc[t] # "blocked"
    /\ \A c \in DOMAIN heap : ~heap[c].poisoned

\* C18: with the lock poisoned every read returns its default (no payload,
\* empty context, no expiration, not expired, not modified, not discarded)
\* whatever the state behind the lock holds, and id() and created_at() return
\* the construction values.
C18_PoisonedReadsDegrade ==
    \A h \in Hs :
        ~ReadOk(h) =>
            /\ data(h) = None
            /\ ~has_data(h)
            /\ \A k \in Keys : get_context(h, k) = NoValue
            /\ context(h) = EmptyMap
            /\ expires_at(h) = NoTime
            /\ ~is_expired(h)
            /\ ~is_modified(h)
            /\ ~is_discarded(h)
            /\ id(h) = born.id
            /\ created_at(h) = born.created_at

\* A poisoned lock around a state with a payload, context entries, a passed
\* expiration and both flags set, read through a clone.
C18_Witness ==
    /\ Len(handles) >= 2
    /\ ~ReadOk(2)
    /\ St(2).data # None
    /\ St(2).context # EmptyMap
    /\ St(2).expires_at # NoTime
    /\ now >= St(2).expires_at
    /\ St(2).modified
    /\ St(2).discarded
    /\ ret = "panic"

\* C19 as stated: every call on a built session returns normally.
C19_AccessorsNeverFail ==
    phase = "built" => ret = "unit"

\* The record the shared session serializes to before any thread has run.
TornInitialFields == SerializeFields(handles[1], BuildState(TornBuilder, 0))

\* C20 as stated: a writer holds the lock alone, and a thread that has read a
\* payload, context or expires_at that a mutator stored reads is_modified()
\* true afterwards (no thread calls clear_modified).
C20_NoTornRead ==
    /\ lock.writer # 0 => lock.readers = {}
    /\ (/\ pc[1] = "idle"
        /\ call[1].op = "is_modified"
        /\ wire # <<>>
        /\ wire # TornInitialFields) => SawModified(1)

\* The state of a session as its reads do not show it: the flags behind a
\* poisoned lock included.
Fields(h) == [reads |-> Reads(h), cell |-> heap[handles[h].state]]

\* C21: a call on one session leaves payload, context, expires_at, modified
\* and discarded of every separately built session as they were, and a call
\* waiting for its session's lock finds it free whenever only calls on other
\* sessions are in progress.
C21_SessionsIndependent ==
    /\ [](\A t \in Threads :
            pc[t] = "wait" /\ (\A u \in Threads \ {t} : id(HandleOf(u)) # id(HandleOf(t)))
                => CanWrite(lock[LockOf(t)]))
    /\ [][\A t \in Threads :
            RunBody(t) =>
                \A h \in Hs : id(h) # id(HandleOf(t)) => Fields(h)' = Fields(h)]_vars

\* Every thread has mutated its own session while the others held their locks.
C21_Witness ==
    /\ \A t \in Threads : pc[t] = "stored" /\ lock[LockOf(t)].writer = t
    /\ is_discarded(2)
    /\ ~is_discarded(3)
    /\ data(3) = "p2"
    /\ data(2) = "p1"

\* C22: build() with expires_in(d) yields expires_at() = created_at() + d, both
\* from the time build() ran, and without expires_in it yields no expiration.
C22_ExpiresAtFromBuildTime ==
    [][Build =>
         /\ created_at(1)' = now
         /\ expires_at(1)' = IF builder.expires_in = NoTime THEN NoTime
                             ELSE created_at(1)' + builder.expires_in]_vars

\* Built at time 2 with expires_in(1), the clock having run before build().
C22_Witness ==
    /\ phase = "built"
    /\ dirty = 0
    /\ created_at(1) = 2
    /\ expires_at(1) = 3
    /\ now = 2

\* C23 as stated: build() invokes the generator once, the id is what that
\* invocation returned, and the id is not the empty string.
C23_IdNonEmpty ==
    [][Build =>
         /\ genCalls' = genCalls + 1
         /\ id(1)' = Generate(builder.id_generator, genCalls)
         /\ id(1)'[1] # ""]_vars

\* C23, amended: build() invokes the generator once and the id is what that
\* invocation returned, the empty string when the generator returns it.
C23_IdFromOneGenerateCall ==
    [][Build =>
         /\ genCalls' = genCalls + 1
         /\ id(1)' = Generate(builder.id_generator, genCalls)
         /\ id(1)'[1] = "" <=> builder.id_generator = "empty"]_vars

\* Built with the tests' custom generator from a configured builder.
C23_Witness ==
    /\ phase = "built"
    /\ genCalls = 1
    /\ id(1) = <<"custom-id-123", 0>>
    /\ data(1) = "p1"
    /\ expires_at(1) # NoTime

\* What the reads of a handle record return: payload, context, expires_at.
StoredReadsIn(hd, hp) ==
    LET c == hp[hd.state]
    IN  IF c.poisoned
        THEN [id |-> hd.id, data |-> None, context |-> EmptyMap, expires_at |-> NoTime]
        ELSE [id |-> hd.id, data |-> c.st.data, context |-> c.st.context,
              expires_at |-> c.st.expires_at]

StoredReads(hd) == StoredReadsIn(hd, heap)

\* C24: right after save(session), load(session.id()) finds a session with the
\* id, payload, context and expires_at of the saved one, and the saved
\* session is not modified; it stays unmodified over every later step that is
\* no mutation, and a load returns a session under the id it was asked for.
C24_SaveThenLoad ==
    /\ [][\A h \in Hs :
            StoreSave(h) =>
                LET r == MemLoad(store', id(h))
                IN  /\ out'.ok
                    /\ r # <<>>
                    /\ StoredReadsIn(r[1], heap') =
                           [id |-> id(h), data |-> data(h)', context |-> context(h)',
                            expires_at |-> expires_at(h)']
                    /\ data(h)' = data(h)
                    /\ ~is_modified(h)']_vars
    /\ [][(SaveSession \/ LoadSession \/ DeleteSession \/ StoreCleanup \/ Tick) =>
            \A h \in Hs : ~is_modified(h) => ~is_modified(h)']_vars
    /\ [][\A i \in StoreIds :
            StoreLoad(i) /\ out'.found # <<>> => out'.found[1].id = i]_vars

\* The second session, modified since it was built, has been saved beside the
\* first and then loaded.
C24_Witness ==
    /\ out.op = "load"
    /\ out.found # <<>>
    /\ out.found[1] = handles[2]
    /\ Cardinality(DOMAIN store) = 2
    /\ StoredReads(out.found[1]).data = "p2"
    /\ is_discarded(2)
    /\ ~is_modified(2)

\* C25: load of an id that is not in the store (never saved, or deleted)
\* returns Ok(None); delete removes the id, and delete of an id that is not in
\* the store returns Ok and leaves the store as it was.
C25_AbsenceIsNoError ==
    [][\A i \in StoreIds :
         /\ StoreLoad(i) /\ i \notin DOMAIN store => out'.ok /\ out'.found = <<>>
         /\ StoreDelete(i) =>
               /\ out'.ok
               /\ MemLoad(store', i) = <<>>
               /\ \A j \in DOMAIN store \ {i} : MemLoad(store', j) = MemLoad(store, j)
               /\ i \notin DOMAIN store => store' = store]_vars

\* A load that found nothing, with another session still stored.
C25_Witness ==
    /\ out.op = "load"
    /\ out.found = <<>>
    /\ out.ok
    /\ Cardinality(DOMAIN store) = 1
    /\ \E h \in Hs : id(h) \notin DOMAIN store

\* C26: cleanup_expired() removes the stored sessions whose is_expired() is
\* true and no other, keeps what it leaves as it was, returns the number it
\* removed, and removes no session without expiration.
C26_CleanupRemovesExpired ==
    [][StoreCleanup =>
         /\ out'.ok
         /\ DOMAIN store' \subseteq DOMAIN store
         /\ out'.count = Cardinality(DOMAIN store \ DOMAIN store')
         /\ \A i \in DOMAIN store :
               /\ i \in DOMAIN store' => store'[i] = store[i]
               /\ \A h \in Hs :
                     handles[h] = store[i] =>
                         /\ i \in DOMAIN store' <=> ~is_expired(h)
                         /\ expires_at(h) = NoTime => i \in DOMAIN store']_vars

\* A cleanup that removed one of two stored sessions, at the instant the
\* removed one expired.
C26_Witness ==
    /\ out.op = "cleanup"
    /\ out.count = 1
    /\ Cardinality(DOMAIN store) = 1
    /\ \E h \in Hs : id(h) \notin DOMAIN store /\ expires_at(h) = now
    /\ \E h \in Hs : id(h) \in DOMAIN store /\ ~is_expired(h)

\* C27 as stated: a save of a discarded session, and a cleanup pass, leave no
\* discarded session in the store.
C27_DiscardedRemoved ==
    [][/\ \A h \in Hs :
            StoreSave(h) /\ is_discarded(h) => MemLoad(store', id(h)) = <<>>
       /\ StoreCleanup =>
            \A h \in Hs :
                is_discarded(h) /\ MemLoad(store, id(h)) = <<handles[h]>>
                    => MemLoad(store', id(h)) = <<>>]_vars

\* C28 as stated: every call that a thread has entered returns, whatever the
\* other threads call on the same session.
C28_EveryCallReturns == \A t \in Threads : (pc[t] = "wait") ~> (pc[t] = "idle")

\* A step in which set_context(k, v) is called through handle h.
SetsContext(h, k, v) ==
    /\ SetContext
    /\ heap' = [heap EXCEPT ![handles[h].state] = set_context(Cell(h), k, v)]

\* C29 as stated: after set_context(k, v), get_context(k) is v and context()
\* is the previous mapping with k mapped to v; the payload, expires_at and
\* discarded are as before; get_context of a key that is in no entry is absent.
C29_SetContextFrame ==
    /\ [][\A h \in Hs, k \in Keys, v \in Vals :
            SetsContext(h, k, v) =>
                /\ get_context(h, k)' = v
                /\ context(h)' = MapInsert(context(h), k, v)
                /\ \A j \in Keys \ {k} : get_context(h, j)' = get_context(h, j)
                /\ data(h)' = data(h)
                /\ expires_at(h)' = expires_at(h)
                /\ is_discarded(h)' = is_discarded(h)]_vars
    /\ [](\A h \in Hs, k \in Keys :
            k \notin DOMAIN St(h).context => get_context(h, k) = NoValue)

\* A step in which update_data(p) is called through handle h.
UpdatesData(h, p) ==
    /\ UpdateData
    /\ heap' = [heap EXCEPT ![handles[h].state] = update_data(Cell(h), p)]

\* C30 as stated: after update_data(p), data() is p and has_data() is true
\* exactly when p is present; context, expires_at and discarded are as
\* before; in every state has_data() is true exactly when data() is present.
C30_UpdateDataReplaces ==
    /\ [][\A h \in Hs, p \in OptPayloads :
            UpdatesData(h, p) =>
                /\ data(h)' = p
                /\ has_data(h)' <=> p # None
                /\ context(h)' = context(h)
                /\ expires_at(h)' = expires_at(h)
                /\ is_discarded(h)' = is_discarded(h)]_vars
    /\ [](\A h \in Hs : has_data(h) <=> data(h) # None)

\* C31 as stated: after set_expiration(x), expires_at() is x whatever it was
\* before; after set_expiration(None) is_expired() is false; the payload, the
\* context and discarded are as before.
C31_SetExpirationReplaces ==
    [][\A h \in Hs, x \in OptTimes :
         /\ SetExpiration
         /\ heap' = [heap EXCEPT ![handles[h].state] = set_expiration(Cell(h), x)]
         => /\ expires_at(h)' = x
            /\ x = NoTime => ~is_expired(h)'
            /\ data(h)' = data(h)
            /\ context(h)' = context(h)
            /\ is_discarded(h)' = is_discarded(h)]_vars

\* C32: a read operation through any handle, and a clone, leave the state of
\* every session as it was; in particular is_modified() reads the same after
\* it as before, and a session built and only read is unmodified.
C32_ReadsChangeNothing ==
    [][ReadThrough \/ Clone =>
         /\ \A i \in DOMAIN heap : heap'[i] = heap[i]
         /\ DOMAIN heap' = DOMAIN heap
         /\ \A h \in Hs : Reads(h)' = Reads(h) /\ handles'[h] = handles[h]]_vars

\* A read of a session that was modified, discarded and cloned, after time passed.
C32_Witness ==
    /\ ret = "read"
    /\ Len(handles) >= 2
    /\ now > 0
    /\ is_discarded(1)
    /\ has_data(2)
    /\ context(2) # EmptyMap
    /\ dirty = 2

\* C33 as stated: the discarded flag of a session is false after build(), is
\* true after discard() through any handle, and no step of any operation
\* takes it from true to false.
C33_DiscardedMonotonic ==
    /\ [][Build => \A h \in DOMAIN handles' : ~St(h).discarded']_vars
    /\ [][\A h \in Hs :
            /\ St(h).discarded => St(h).discarded'
            /\ Discard /\ heap' = [heap EXCEPT ![handles[h].state] = discard(Cell(h))]
                  => St(h).discarded']_vars

\* The calls of log made one after the other on cell return the values the
\* log gives them.
RECURSIVE ReturnsInOrder(_, _)
ReturnsInOrder(cell, log) ==
    \/ log = <<>>
    \/ /\ Head(log).value = ReturnOf(Head(log).call, cell)
       /\ ReturnsInOrder(ApplyCall(Head(log).call, cell, now), Tail(log))

\* The cell after the calls of log were made one after the other on cell.
RECURSIVE StateInOrder(_, _)
StateInOrder(cell, log) ==
    IF log = <<>> THEN cell
    ELSE StateInOrder(ApplyCall(Head(log).call, cell, now), Tail(log))

\* C34: the calls that have returned, made one at a time in the order in which
\* they dropped their guards (which keeps each thread's own order), return the
\* values they returned in the concurrent run and leave the state the
\* session has whenever no mutator is inside its critical section.
C34_Linearizable ==
    LET built == [poisoned |-> FALSE, st |-> BuildState(TornBuilder, 0)]
    IN  /\ ReturnsInOrder(built, applied)
        /\ lock.writer = 0 => heap[1] = StateInOrder(built, applied)

\* clear_modified() and set_context() have raced, the set_context took the lock
\* last, and is_modified() read true after both.
C34_Witness ==
    /\ AllReturned
    /\ Len(applied) = 3
    /\ applied[1].call = ClearModifiedCall
    /\ applied[2].call = SetContextCall(1)
    /\ applied[3] = [call |-> IsModifiedCall, value |-> "true"]

\* C35: on a session whose lock is poisoned, every mutator called through any
\* handle returns normally and leaves the guarded state and everything the
\* reads return as they were; no step of any operation clears the poison.
C35_PoisonedMutatorsNoOp ==
    /\ [][\A h \in Hs :
            /\ Cell(h).poisoned
            /\ \/ UpdateData
               \/ SetContext
               \/ ExtendExpiration
               \/ ExtendExpirationPanic
               \/ SetExpiration
               \/ Discard
               \/ ClearModified
            => /\ heap' = heap
               /\ ret' = "unit"
               /\ Reads(h)' = Reads(h)]_vars
    /\ [][\A i \in DOMAIN heap : heap[i].poisoned => heap'[i] = heap[i]]_vars

\* A mutator has returned from a call through the second handle of a session
\* that was poisoned, and the payload behind the lock is still there.
C35_Witness ==
    /\ Len(handles) = 2
    /\ Cell(2).poisoned
    /\ ret = "unit"
    /\ dirty = 2
    /\ St(2).data = "p1"
    /\ ~St(2).discarded
    /\ data(2) = None

\* C36: serializing a session whose lock is poisoned returns the error
\* "failed to acquire read lock" and emits no record; no record of a
\* poisoned session exists, not one of the default state either.
C36_PoisonedSerializeFails ==
    /\ [][Cell(1).poisoned /\ (Serialize \/ SerializeFails) =>
            /\ ret' = "error"
            /\ SerializeSession(handles[1], Cell(1)).err = "failed to acquire read lock"
            /\ wire' = <<>>]_vars
    /\ [](Cell(1).poisoned => wire = <<>>)

\* The serialization of a poisoned session with a payload, a context entry and
\* an expiration behind its lock has failed.
C36_Witness ==
    /\ Cell(1).poisoned
    /\ ret = "error"
    /\ wire = <<>>
    /\ St(1).data = "p1"
    /\ St(1).context # EmptyMap
    /\ St(1).expires_at # NoTime
    /\ data(1) = None

\* C37: deserialization of a record yields a session exactly when each of id,
\* created_at, data, context and expires_at is in the record once and no other
\* field is; a record with a field missing, twice or unknown yields the
\* error and no session. The step from no record to a record is the
\* deserialization of that record.
C37_FieldsExactlyOnce ==
    [][wire = <<>> /\ wire' # <<>> =>
         LET once == \A f \in FieldNames :
                        Cardinality({i \in DOMAIN wire' : wire'[i][1] = f}) = 1
             known == \A i \in DOMAIN wire' : wire'[i][1] \in FieldNames
         IN  /\ Len(handles') = Len(handles) + 1 <=> once /\ known
             /\ ~(once /\ known) =>
                   /\ handles' = handles
                   /\ heap' = heap
                   /\ ret' \in {"missing_field", "duplicate_field", "unknown_field"}
             /\ once /\ known => ret' = "unit"]_vars

\* A record with all five fields, one of them twice, was refused.
C37_Witness ==
    /\ Len(wire) = 6
    /\ \A f \in FieldNames : \E i \in DOMAIN wire : wire[i][1] = f
    /\ \A i \in DOMAIN wire : wire[i][1] \in FieldNames
    /\ ret = "duplicate_field"
    /\ Len(handles) = NThreads + 1

\* C38: the session restored from a record equals the session the record was
\* taken from and has a state of its own: a mutator, clear_modified or discard
\* called on one of the two changes nothing that the other's reads return
\* and nothing behind the other's lock.
C38_RestoredIndependent ==
    /\ [](Len(handles) = 2 => SessionEq(1, 2) /\ handles[1].state # handles[2].state)
    /\ [][Len(handles) = 2 /\ (UpdateData \/ Discard \/ ClearModified) =>
            \A h1, h2 \in Hs :
                h1 # h2 /\ Cell(h1)' # Cell(h1) =>
                    Cell(h2)' = Cell(h2) /\ Reads(h2)' = Reads(h2)]_vars

\* After the restore the original was discarded and saved, and the restored
\* session was given another payload: neither shows the other's change.
C38_Witness ==
    /\ Len(handles) = 2
    /\ is_discarded(1)
    /\ ~is_modified(1)
    /\ ~is_discarded(2)
    /\ is_modified(2)
    /\ data(1) = "p1"
    /\ data(2) = "p2"

\* C39: is_expired() is true exactly when the lock can be read, expires_at is
\* present and the current time is at or after it; extend_expiration(d) on a
\* session that expired more than d ago leaves it expired.
C39_ExpiredInclusive ==
    /\ [](\A h \in Hs :
            is_expired(h) <=>
                /\ ~Cell(h).poisoned
                /\ St(h).expires_at # NoTime
                /\ now >= St(h).expires_at)
    /\ [][\A h \in Hs, d \in Durations :
            /\ expires_at(h) # NoTime
            /\ expires_at(h) + d < now
            /\ ExtendsBy(h, d)
            => /\ expires_at(h)' = expires_at(h) + d
               /\ is_expired(h)']_vars

\* A session at the very instant of its expiry, after an extension that did
\* not reach the current time.
C39_Witness ==
    /\ Len(handles) = 2
    /\ dirty = 2
    /\ expires_at(1) = now
    /\ now = MaxTime
    /\ is_expired(2)
    /\ is_modified(1)

\* C40: without a session id the extraction is rejected with
\* A::missing_session_id() and authenticate is not called; with an id it is
\* the outcome of one authenticate call with that id; the optional form is
\* never rejected, gives the user when the required form would, and
\* nothing otherwise.
C40_AuthExtraction ==
    auth.form # "none" =>
        LET r == auth.result[1]
            outcome == IF auth.e = <<>> THEN MissingSessionId ELSE auth.a[auth.e[1]]
        IN  /\ auth.calls = auth.e
            /\ auth.form = "required" => r = outcome
            /\ auth.form = "optional" =>
                  /\ r.ok
                  /\ r.val = IF outcome.ok THEN <<outcome.val>> ELSE <<>>

\* The optional form has turned the authenticator's error for the id of the
\* request into an absent result.
C40_Witness ==
    /\ auth.form = "optional"
    /\ auth.e = <<"sid2">>
    /\ ~auth.a["sid2"].ok
    /\ auth.a["sid1"].ok
    /\ auth.calls = <<"sid2">>
    /\ auth.result = <<[ok |-> TRUE, val |-> <<>>]>>

====
